---- MODULE Spec2Model ----
(***************************************************************************)
(* Live logcat session engine of ivi-toolbox-pro.                          *)
(*                                                                         *)
(* Two variants of the engine are modelled, each as its own state machine: *)
(*   - the Qt live monitor of Adayo_Mega_TestTool.py (LogcatMonitorWorker  *)
(*     driven by AdayoMegaTool): specification Spec;                       *)
(*   - the rotating background recorder of ai_root_gain.py                 *)
(*     (LiveLogcatPro): specification RecSpec / RecFairSpec.               *)
(***************************************************************************)
EXTENDS Integers, Sequences, FiniteSets, TLC

(***************************************************************************)
(* Bounds of the model.                                                    *)
(***************************************************************************)
\* Capacity of the live view. The program's value is 5000
\* (Adayo_Mega_TestTool.py:94); the model runs it scaled down so that the
\* view overflows within MaxLines lines.
MAX_LIVE_LOG_ROWS == 2
\* Lines all producer processes emit in one run of the model.
MaxLines == 3
\* Starts accepted in one run of the model (each creates a worker and may
\* launch a producer process).
MaxSessions == 2
\* Lines a producer's stdout pipe holds unread.
MaxPipe == 1
\* Size of an archive segment, in lines, above which the recorder rotates.  The
\* program's value is max_file_size_mb = 50, i.e. 50 * 1024 * 1024 bytes
\* (ai_root_gain.py:132, 278); the model counts one unit per line.
RotateThreshold == 1
\* Lines all producers of the recorder emit in one run of the model: enough for
\* a worker to fill two segments.
RecMaxLines == 4

None == "None"

Sessions == 1..MaxSessions

(***************************************************************************)
(* Log lines.  A raw line is one of a few sample lines, tagged with the    *)
(* position at which the producers emitted it.                             *)
(***************************************************************************)
\* The LogLevel enum: member name -> value (the level character).
LogLevel ==
    [FATAL |-> "F", ERROR |-> "E", WARN |-> "W", INFO |-> "I",
     DEBUG |-> "D", VERBOSE |-> "V", UNKNOWN |-> "U"]

LogLevelValues == {LogLevel[n] : n \in DOMAIN LogLevel}

\* Python compares the enum values, which are one-character strings, by
\* code point.
Ord(c) ==
    CASE c = "D" -> 68 [] c = "E" -> 69 [] c = "F" -> 70 [] c = "I" -> 73
      [] c = "U" -> 85 [] c = "V" -> 86 [] c = "W" -> 87 [] OTHER -> 0

\* Sample producer output.  matches: the line matches LOGCAT_REGEX;
\* decodes: the bytes are valid UTF-8.
LineSamples ==
    << [decodes |-> TRUE,  matches |-> TRUE,  level |-> "V", pid |-> 1, tid |-> 1,
        tag |-> "A", message |-> "m"],
       [decodes |-> TRUE,  matches |-> TRUE,  level |-> "F", pid |-> 2, tid |-> 2,
        tag |-> "B", message |-> "m"],
       [decodes |-> TRUE,  matches |-> FALSE, level |-> "U", pid |-> 0, tid |-> 0,
        tag |-> "", message |-> ""],
       [decodes |-> FALSE, matches |-> FALSE, level |-> "U", pid |-> 0, tid |-> 0,
        tag |-> "", message |-> ""] >>

RawLine(n, s) == [seq |-> n, s |-> s]

VARIABLE
    datetime_name           \* what the global name datetime of Adayo_Mega_TestTool.py
                            \* is bound to: "module" | "class"

\* "now = datetime.now()", the first statement of the try block that needs the
\* name: on the module it raises AttributeError (the module has no attribute
\* now), which "except Exception: pass" swallows.
DatetimeNowRaises == datetime_name = "module"

\* ParseLogLine with a line that does not match kept as a record of level
\* UNKNOWN instead of being dropped.
ParseLogLineKeepsUnmatched(line) ==
    LET data == LineSamples[line.s] IN
    << [seq     |-> line.seq,
        level   |-> IF data.matches /\ data.level \in LogLevelValues
                    THEN data.level ELSE LogLevel.UNKNOWN,
        pid     |-> data.pid,
        tid     |-> data.tid,
        tag     |-> data.tag,
        message |-> data.message] >>

\* LogcatMonitorWorker._parse_log_line: <<LogEntry>>, or << >> (None) when the
\* line does not match the expression or the try block raises.
ParseLogLine(line) ==
    LET data == LineSamples[line.s] IN
    IF data.matches /\ ~DatetimeNowRaises
    THEN << [seq     |-> line.seq,
          level   |-> IF data.level \in LogLevelValues THEN data.level
                      ELSE LogLevel.UNKNOWN,
          pid     |-> data.pid,
          tid     |-> data.tid,
          tag     |-> data.tag,
          message |-> data.message] >>
    ELSE << >>

VARIABLES
    \* ---- AdayoMegaTool (the UI thread) ----
    logcat_thread,          \* None, or "running": the QThread of the session
    logcat_worker,          \* 0 (None), or the number of the session's worker
    logcat_table,           \* rows of the live view, oldest first
    logcat_total_lines,
    logcat_displayed_lines,
    logcat_filter_criteria,
    uiPc,                   \* where the UI thread is inside _stop_live_logcat
    eventQueue,             \* new_log_line_signal emissions queued to the UI thread
    statusLog,              \* status_signal / status texts since the last accepted start
    lastOp,                 \* the operation the last step performed
    \* ---- LogcatMonitorWorker (the worker thread) ----
    wPc,                    \* where the worker is inside start_monitor
    w_running,              \* LogcatMonitorWorker._running
    adb_process,            \* LogcatMonitorWorker._adb_process: 0 (None) or a process number
    wExit,                  \* how the read loop of the worker ended
    \* ---- producer processes (adb logcat) ----
    procs,                  \* process number -> "none" | "alive" | "exited"
    pipes,                  \* process number -> lines written to stdout, not yet read
    signals,                \* calls made on the worker's process handle, in order
    waitOutcome,            \* outcome of wait(timeout=3) in the worker's stop_monitor
    emitted,                \* lines emitted so far by all producers
    sessionNo,              \* accepted starts so far
    \* ---- history (no program variable) ----
    wRead,                  \* lines (by number) the worker of the latest start has read, in order
    accepted                \* entries inserted into the view since it was last emptied

VARIABLES
    \* ---- LiveLogcatPro (ai_root_gain.py), main thread ----
    is_recording,
    rotation_index,
    start_time,             \* 0 (None), or the number of the start that set it
    current_file_path,      \* << >> ("N/A"), or a segment name << timestamp_base, part >>
    log_thread,             \* 0 (None), or the number of the last worker started
    mainPc,                 \* where the main thread is: menu, starting, dashboard, joining
    recLastOp,              \* the operation the last step of the main thread performed
    recSessionNo,           \* accepted starts so far
    \* ---- _recorder_worker threads, by worker number ----
    rPc,                    \* position in _recorder_worker
    rTs,                    \* timestamp_base (local)
    rF,                     \* segment the local name f is bound to (<< >> when none)
    rWith,                  \* segment whose file object the with statement manages
    rTell,                  \* f.tell(), in lines
    rOpen,                  \* segments on which the worker holds an open file object
    rProc,                  \* the worker's producer: "none" | "alive" | "exited"
    rPipe,                  \* lines in the producer's stdout pipe, not yet read
    rRead,                  \* lines the worker has read from its producer, in order
    rTermSent,              \* process.terminate() has been called on the worker's producer
    \* ---- the file system and the producers ----
    files,                  \* segment name -> lines written to the file
    recEmitted              \* lines emitted so far by all producers

VARIABLES
    \* ---- one evaluation of the filter (AdayoMegaTool._check_log_filter) ----
    fEntry,                 \* the LogEntry under evaluation
    fCriteria,              \* the criteria dictionary
    fChecked,               \* _check_log_filter has returned for the present criteria
    fAccepts,               \* its return value
    fPrev                   \* criteria and return value of the evaluation before

fltVars == << fEntry, fCriteria, fChecked, fAccepts, fPrev >>

VARIABLES
    \* ---- calls of LogcatMonitorWorker._parse_log_line on one line ----
    pLine,                  \* the line
    pNows,                  \* what datetime.now() returned in each call
    pResults                \* what each call returned

prsVars == << datetime_name, pLine, pNows, pResults >>

VARIABLES
    \* ---- LogcatAnalyzer (ivi_toolbox.py) ----
    filter_config,
    monPc,                  \* "menu" (show_filter_menu) | "monitoring" (start_monitoring)
    crash_count,
    line_count,
    monSent,                \* lines the device has logged since monitoring began
    monLast                 \* << >>, or what became of the last of these lines

monVars == << filter_config, monPc, crash_count, line_count, monSent, monLast >>

recMainVars ==
    << is_recording, rotation_index, start_time, current_file_path, log_thread,
       mainPc, recLastOp, recSessionNo >>

recWorkerVars ==
    << rPc, rTs, rF, rWith, rTell, rOpen, rProc, rPipe, rRead, rTermSent >>

recVars == << recMainVars, recWorkerVars, files, recEmitted >>

guiVars ==
    << logcat_thread, logcat_worker, logcat_table, logcat_total_lines,
       logcat_displayed_lines, logcat_filter_criteria, uiPc, eventQueue,
       statusLog, lastOp, wPc, w_running, adb_process, wExit, procs, pipes,
       signals, waitOutcome, emitted, sessionNo, wRead, accepted >>

vars == << guiVars, recVars, fltVars, prsVars, monVars >>

\* AdayoMegaTool.__init__: the initial filter criteria.
InitialCriteria ==
    [min_level |-> LogLevel.VERBOSE, tag_regex |-> None, msg_regex |-> None,
     pid_tid |-> [none |-> TRUE, ids |-> {}]]

GuiInit ==
    /\ logcat_thread = None
    /\ logcat_worker = 0
    /\ logcat_table = << >>
    /\ logcat_total_lines = 0
    /\ logcat_displayed_lines = 0
    /\ logcat_filter_criteria = InitialCriteria
    /\ uiPc = "ready"
    /\ eventQueue = << >>
    /\ statusLog = << >>
    /\ lastOp = "init"
    /\ wPc = "none"
    /\ w_running = FALSE
    /\ adb_process = 0
    /\ wExit = "none"
    /\ procs = [k \in Sessions |-> "none"]
    /\ pipes = [k \in Sessions |-> << >>]
    /\ signals = << >>
    /\ waitOutcome = "none"
    /\ emitted = 0
    /\ sessionNo = 0
    /\ wRead = << >>
    /\ accepted = << >>

\* LiveLogcatPro.__init__
RecInit ==
    /\ is_recording = FALSE
    /\ rotation_index = 0
    /\ start_time = 0
    /\ current_file_path = << >>
    /\ log_thread = 0
    /\ mainPc = "menu"
    /\ recLastOp = "init"
    /\ recSessionNo = 0
    /\ rPc = [k \in Sessions |-> "none"]
    /\ rTs = [k \in Sessions |-> 0]
    /\ rF = [k \in Sessions |-> << >>]
    /\ rWith = [k \in Sessions |-> << >>]
    /\ rTell = [k \in Sessions |-> 0]
    /\ rOpen = [k \in Sessions |-> {}]
    /\ rProc = [k \in Sessions |-> "none"]
    /\ rPipe = [k \in Sessions |-> << >>]
    /\ rRead = [k \in Sessions |-> << >>]
    /\ rTermSent = [k \in Sessions |-> FALSE]
    /\ files = << >>
    /\ recEmitted = 0

\* Sample entries for the evaluation of the filter: every level, with three
\* combinations of pid, tid, tag and message.
FltEntries ==
    { [seq |-> 0, level |-> l, pid |-> v.pid, tid |-> v.tid, tag |-> v.tag,
       message |-> v.message] :
        l \in LogLevelValues,
        v \in { [pid |-> 1, tid |-> 1, tag |-> "A", message |-> "m"],
                [pid |-> 2, tid |-> 1, tag |-> "B", message |-> "n"],
                [pid |-> 2, tid |-> 2, tag |-> "A", message |-> "m"] } }

\* The evaluation of the filter on the entry e, before anything is applied.
FltStart(e) ==
    /\ fEntry = e
    /\ fCriteria = InitialCriteria
    /\ fChecked = FALSE
    /\ fAccepts = FALSE
    /\ fPrev = [set |-> FALSE, criteria |-> InitialCriteria, accepts |-> FALSE]

\* The filter is evaluated on any of the sample entries.
FltInit == \E e \in FltEntries : FltStart(e)

(***************************************************************************)
(* LogcatMonitorWorker._parse_log_line on the text of a line.              *)
(***************************************************************************)
MaxParses == 2

UpperCaseLetters ==
    {"A", "B", "C", "D", "E", "F", "G", "H", "I", "J", "K", "L", "M", "N", "O",
     "P", "Q", "R", "S", "T", "U", "V", "W", "X", "Y", "Z"}

\* The text a line carries after the level column and the blanks behind it,
\* character by character, up to the line feed that readline() leaves at the
\* end of the line.
RestSamples ==
    { << "T", ":", " ", "m" >>,
      << "T", ":", "m" >>,
      << "T", " ", ":", " ", "m", ":", "m", " " >>,
      << "T", ":" >>,
      << "T", "m" >> }

\* Lines in the threadtime layout: the two digits of the month and of the day,
\* the character in the level column, the text after the level column, and
\* whether the columns before the level (time, pid, tid) have the layout
\* LOGCAT_REGEX expects.
ParseLines ==
    [month : {2, 13}, day : {28, 29},
     level : LogLevelValues \cup {"S", "e", "1"},
     rest : RestSamples,
     wellFormed : BOOLEAN]

\* What datetime.now() can return.
Clock == [year : {2024, 2025}, month : {1, 12}]

\* "\s" of the expression, on the characters the lines are made of.
IsSpace(c) == c \in {" ", "\n"}

\* The line as readline() returns it: with its line feed.
WithLineFeed(text) == Append(text, "\n")

\* Position of the first ":" of text, 0 when it has none.
FirstColon(text) ==
    IF \E i \in 1..Len(text) : text[i] = ":"
    THEN CHOOSE i \in 1..Len(text) :
             text[i] = ":" /\ \A j \in 1..(i - 1) : text[j] # ":"
    ELSE 0

\* str.strip().
RECURSIVE Strip(_)
Strip(text) ==
    IF text = << >> THEN << >>
    ELSE IF IsSpace(Head(text)) THEN Strip(Tail(text))
    ELSE IF IsSpace(text[Len(text)]) THEN Strip(SubSeq(text, 1, Len(text) - 1))
    ELSE text

\* The blanks "\s+" takes from the front of text (it is greedy).
RECURSIVE LeadingSpaces(_)
LeadingSpaces(text) ==
    IF text # << >> /\ IsSpace(Head(text)) THEN 1 + LeadingSpaces(Tail(text))
    ELSE 0

\* "(?P<tag>[^:]*):\s+(?P<message>.*)$" on the text after the level column:
\* the tag cannot hold a ":", so it ends at the first one; at least one
\* blank has to follow it; "." stops at the line feed.
TagMessageMatch(text) ==
    LET line  == WithLineFeed(text)
        colon == FirstColon(line)
        after == SubSeq(line, colon + 1, Len(line))
        body  == SubSeq(after, LeadingSpaces(after) + 1, Len(after))
    IN  IF colon = 0 \/ LeadingSpaces(after) = 0
        THEN [matches |-> FALSE, tag |-> << >>, message |-> << >>]
        ELSE [matches |-> TRUE,
              tag     |-> SubSeq(line, 1, colon - 1),
              message |-> SelectSeq(body, LAMBDA c : c # "\n")]

\* LOGCAT_REGEX.match(line): the level column is "(?P<level>[A-Z])".
LogcatRegexMatches(line) ==
    /\ line.wellFormed
    /\ line.level \in UpperCaseLetters
    /\ TagMessageMatch(line.rest).matches

IsLeapYear(y) == y % 4 = 0 /\ (y % 100 # 0 \/ y % 400 = 0)

DaysInMonth(y, m) ==
    IF m = 2 THEN (IF IsLeapYear(y) THEN 29 ELSE 28)
    ELSE IF m \in {4, 6, 9, 11} THEN 30 ELSE 31

\* datetime(year, month, day, ...) raises ValueError.
DatetimeRaises(y, m, d) == m \notin 1..12 \/ d \notin 1..DaysInMonth(y, m)

\* ReferenceYear with the year of the month before the present one.
ReferenceYearOfLastMonth(now) == IF now.month = 1 THEN now.year - 1 ELSE now.year

\* "now.year": the year the timestamp of the record gets.
ReferenceYear(now) == now.year

\* _parse_log_line(line) with datetime.now() = now: <<LogEntry>>, or << >>
\* (None) when the expression does not match or the construction raises.
ParseLogLineAt(line, now) ==
    IF ~LogcatRegexMatches(line) THEN << >>
    ELSE IF DatetimeNowRaises THEN << >>
    ELSE IF DatetimeRaises(ReferenceYear(now), line.month, line.day) THEN << >>
    ELSE << [timestamp |-> << ReferenceYear(now), line.month, line.day >>,
             level     |-> IF line.level \in LogLevelValues THEN line.level
                           ELSE LogLevel.UNKNOWN,
             tag       |-> Strip(TagMessageMatch(line.rest).tag),
             message   |-> Strip(TagMessageMatch(line.rest).message),
             raw_line  |-> line] >>

\* No call made yet on the line l.
PrsStart(l) ==
    /\ pLine = l
    /\ pNows = << >>
    /\ pResults = << >>

PrsInit == \E l \in ParseLines : PrsStart(l)

(***************************************************************************)
(* LogcatAnalyzer: the filter command and the crash mark.                  *)
(***************************************************************************)
MonMaxLines == 2

\* The configuration without any filter.  LogcatAnalyzer assigns it in menu
\* entry 5 only (its __init__ sets no filter_config); LogcatAdvanced.__init__
\* starts from the same values.
DefaultFilterConfig ==
    [level |-> "V", tag |-> "", pid |-> "", keyword |-> "", exclude |-> ""]

\* What the device can log: records of the threadtime layout, and lines
\* without it (wellFormed FALSE: the text alone).
DeviceLines ==
    [wellFormed : BOOLEAN, level : {"I", "E"}, tag : {"App", "AndroidRuntime"},
     message : {"boot", "FATAL EXCEPTION: main", "ANR in app"}]

\* "w in text" for the sample texts.
Occurs(w, text) ==
    \/ w = text
    \/ w = "FATAL EXCEPTION" /\ text = "FATAL EXCEPTION: main"
    \/ w = "ANR in" /\ text = "ANR in app"

\* A substring check on the whole line (grep).
LineContains(line, w) == Occurs(w, line.tag) \/ Occurs(w, line.message)

\* The priority order adb uses for a filter spec "*:<level>".
AdbPriority(l) ==
    CASE l = "V" -> 2 [] l = "D" -> 3 [] l = "I" -> 4 [] l = "W" -> 5
      [] l = "E" -> 6 [] l = "F" -> 7 [] OTHER -> 0

\* _build_filter_command: whether the pipeline "adb logcat -v threadtime
\* [*:level] [| grep tag] [| grep keyword] [| grep -v exclude]" lets the line
\* through to the reader.
PassesFilterCommand(line, cfg) ==
    /\ (cfg.level # "V" /\ line.wellFormed)
          => AdbPriority(line.level) >= AdbPriority(cfg.level)
    /\ cfg.tag # "" => LineContains(line, cfg.tag)
    /\ cfg.keyword # "" => LineContains(line, cfg.keyword)
    /\ cfg.exclude # "" => ~LineContains(line, cfg.exclude)

\* LogcatAnalyzer._parse_log_line: <<dict>>, or << >> (None).
AnalyzerParse(line) ==
    IF line.wellFormed /\ line.level \in {"V", "D", "I", "W", "E", "F"}
    THEN << [level |-> line.level, tag |-> line.tag, message |-> line.message] >>
    ELSE << >>

CrashKeywords == {"FATAL EXCEPTION", "ANR in", "Native crash", "SIGSEGV", "SIGABRT"}

\* _format_log_line: is_crash.
IsCrash(parsed) == \E keyword \in CrashKeywords : Occurs(keyword, parsed.message)

\* "CRASH" in formatted: the crash banner, or the word in the tag or the message.
FormattedHasCrash(parsed) ==
    \/ IsCrash(parsed)
    \/ Occurs("CRASH", parsed.tag)
    \/ Occurs("CRASH", parsed.message)

\* Whether start_monitoring under the configuration cfg marks the line as a
\* crash when the device logs it.
AnalyzerFlags(line, cfg) ==
    /\ PassesFilterCommand(line, cfg)
    /\ AnalyzerParse(line) # << >>
    /\ FormattedHasCrash(AnalyzerParse(line)[1])

MonInit ==
    /\ filter_config = DefaultFilterConfig
    /\ monPc = "menu"
    /\ crash_count = 0
    /\ line_count = 0
    /\ monSent = 0
    /\ monLast = << >>

\* Adayo_Mega_TestTool.py, line 3: "import datetime".
DatetimeIsModule == datetime_name = "module"

\* The binding lines 140 to 151 are written for ("from datetime import
\* datetime", as in ivi_toolbox.py and ai_root_gain.py).
DatetimeIsClass == datetime_name = "class"

\* The tools as they are in the repository.
Init ==
    /\ DatetimeIsModule
    /\ GuiInit
    /\ RecInit
    /\ FltStart(CHOOSE e \in FltEntries : TRUE)
    /\ PrsStart(CHOOSE l \in ParseLines : TRUE)
    /\ MonInit

\* The tools under either binding of the name datetime: as they are in the
\* repository, where no record reaches the live view, and with the class, where
\* the parser returns records.
ViewInit ==
    /\ DatetimeIsModule \/ DatetimeIsClass
    /\ GuiInit
    /\ RecInit
    /\ FltStart(CHOOSE e \in FltEntries : TRUE)
    /\ PrsStart(CHOOSE l \in ParseLines : TRUE)
    /\ MonInit

(***************************************************************************)
(* Filter (AdayoMegaTool._apply_live_logcat_filter / _check_log_filter).   *)
(***************************************************************************)
\* re.compile(text, re.IGNORECASE): "(" stands for a text that is no valid
\* regular expression (re.error).
RegexCompiles(text) == text # "("

\* pattern.search(text) for the sample patterns, which are literal words.
RegexSearch(pattern, text) == pattern = text

\* The texts of the filter form: level combo entry, tag pattern, message
\* pattern, PID/TID list.
FilterInputs ==
    [level : {"ALL", "FATAL"}, tag : {"", "("}, msg : {""}, pid : {""}]

\* [int(p) for p in pid_text.split(',') if p.strip().isdigit()] if pid_text else None
ParsePidText(pid_text) ==
    CASE pid_text = ""  -> [none |-> TRUE,  ids |-> {}]
      [] pid_text = "1" -> [none |-> FALSE, ids |-> {1}]
      [] OTHER          -> [none |-> FALSE, ids |-> {}]

\* _apply_live_logcat_filter ends in "except re.error" when one of the two
\* patterns does not compile.
ApplyRaisesReError(in) == ~RegexCompiles(in.tag) \/ ~RegexCompiles(in.msg)

\* _apply_live_logcat_filter: the four entries of the criteria dictionary are
\* assigned one after the other; re.error leaves the later ones as they were.
AppliedCriteria(c, in) ==
    LET c1 == [c EXCEPT !.min_level =
                  IF in.level = "ALL" THEN LogLevel.VERBOSE ELSE LogLevel[in.level]]
        c2 == [c1 EXCEPT !.tag_regex = IF in.tag # "" THEN in.tag ELSE None]
        c3 == [c2 EXCEPT !.msg_regex = IF in.msg # "" THEN in.msg ELSE None]
        c4 == [c3 EXCEPT !.pid_tid = ParsePidText(in.pid)]
    IN  IF ~RegexCompiles(in.tag) THEN c1
        ELSE IF ~RegexCompiles(in.msg) THEN c2
        ELSE c4

\* _check_log_filter, level check: the entry passes unless
\* entry.level.value < min_level.value.
LevelPasses(entry, c) == ~(Ord(entry.level) < Ord(c.min_level))

\* _check_log_filter.
CheckLogFilter(entry, c) ==
    IF ~LevelPasses(entry, c) THEN FALSE
    ELSE IF c.tag_regex # None /\ ~RegexSearch(c.tag_regex, entry.tag) THEN FALSE
    ELSE IF c.msg_regex # None /\ ~RegexSearch(c.msg_regex, entry.message) THEN FALSE
    ELSE IF /\ ~c.pid_tid.none
            /\ c.pid_tid.ids # {}
            /\ entry.pid \notin c.pid_tid.ids
            /\ entry.tid \notin c.pid_tid.ids THEN FALSE
    ELSE TRUE

\* The texts the filter form can hold: every entry of level_combo (its first
\* word), no pattern or a valid one, a PID list that is empty, holds a number,
\* or holds no number ("x").
FltFormInputs ==
    [level : {"FATAL", "ERROR", "WARN", "INFO", "DEBUG", "VERBOSE", "ALL"},
     tag : {"", "A"}, msg : {"", "m"}, pid : {"", "1", "x"}]

\* _apply_live_logcat_filter on the criteria under evaluation.
FltApplyFilter ==
    /\ UNCHANGED << guiVars, recVars, prsVars, monVars >>
    /\ \E in \in FltFormInputs : fCriteria' = AppliedCriteria(fCriteria, in)
    /\ fPrev' = IF fChecked
                THEN [set |-> TRUE, criteria |-> fCriteria, accepts |-> fAccepts]
                ELSE fPrev
    /\ fChecked' = FALSE
    /\ fAccepts' = FALSE
    /\ UNCHANGED fEntry

\* _check_log_filter(entry) under the criteria in force.
FltCheck ==
    /\ UNCHANGED << guiVars, recVars, prsVars, monVars >>
    /\ ~fChecked
    /\ fAccepts' = CheckLogFilter(fEntry, fCriteria)
    /\ fChecked' = TRUE
    /\ UNCHANGED << fEntry, fCriteria, fPrev >>

FltNext == FltApplyFilter \/ FltCheck

\* The monitor and the recorder are at rest while the filter is evaluated.
FltSpecInit ==
    /\ DatetimeIsModule
    /\ GuiInit
    /\ RecInit
    /\ FltInit
    /\ PrsStart(CHOOSE l \in ParseLines : TRUE)
    /\ MonInit

FltSpec == FltSpecInit /\ [][FltNext]_vars

(***************************************************************************)
(* Calls of _parse_log_line.                                               *)
(***************************************************************************)
\* One call on the line, at some time of the clock.
PrsParse ==
    /\ UNCHANGED << guiVars, recVars, fltVars, monVars >>
    /\ Len(pResults) < MaxParses
    /\ \E now \in Clock :
          /\ pNows' = Append(pNows, now)
          /\ pResults' = Append(pResults, ParseLogLineAt(pLine, now))
    /\ UNCHANGED << datetime_name, pLine >>

\* The read loop goes on to the next line.
PrsNextLine ==
    /\ UNCHANGED << guiVars, recVars, fltVars, monVars >>
    /\ pResults # << >>
    /\ \E l \in ParseLines : pLine' = l
    /\ pNows' = << >>
    /\ pResults' = << >>
    /\ UNCHANGED datetime_name

PrsNext == PrsParse \/ PrsNextLine

\* The parser is called under either binding of the name datetime.
ParseSpecInit ==
    /\ DatetimeIsModule \/ DatetimeIsClass
    /\ GuiInit
    /\ RecInit
    /\ FltStart(CHOOSE e \in FltEntries : TRUE)
    /\ PrsInit
    /\ MonInit

ParseSpec == ParseSpecInit /\ [][PrsNext]_vars

(***************************************************************************)
(* LogcatAnalyzer.show_filter_menu / start_monitoring.                     *)
(***************************************************************************)
\* The texts typed into the filter menu.
MonMenuInputs ==
    [level : {"V", "E"}, tag : {"", "App"}, keyword : {"", "boot"},
     exclude : {"", "AndroidRuntime"}]

\* show_filter_menu, entries 1 to 5.
MonSetFilter ==
    /\ UNCHANGED << guiVars, recVars, fltVars, prsVars >>
    /\ monPc = "menu"
    /\ \E in \in MonMenuInputs :
          \/ filter_config' = [filter_config EXCEPT !.level = in.level]
          \/ filter_config' = [filter_config EXCEPT !.tag = in.tag]
          \/ filter_config' = [filter_config EXCEPT !.keyword = in.keyword]
          \/ filter_config' = [filter_config EXCEPT !.exclude = in.exclude]
          \/ filter_config' = DefaultFilterConfig
    /\ UNCHANGED << monPc, crash_count, line_count, monSent, monLast >>

\* show_filter_menu, entry s: start_monitoring up to the Popen of the command.
MonStartMonitoring ==
    /\ UNCHANGED << guiVars, recVars, fltVars, prsVars >>
    /\ monPc = "menu"
    /\ monPc' = "monitoring"
    /\ crash_count' = 0
    /\ line_count' = 0
    /\ monSent' = 0
    /\ monLast' = << >>
    /\ UNCHANGED filter_config

\* The device logs a line; when the command lets it through, one iteration of
\* "for line in process.stdout".
MonDeviceLine ==
    /\ UNCHANGED << guiVars, recVars, fltVars, prsVars >>
    /\ monPc = "monitoring"
    /\ monSent < MonMaxLines
    /\ \E line \in DeviceLines :
          LET delivered == PassesFilterCommand(line, filter_config)
              parsed == AnalyzerParse(line)
              counted == delivered /\ parsed # << >>
              flagged == AnalyzerFlags(line, filter_config)
          IN /\ line_count' = IF counted THEN line_count + 1 ELSE line_count
             /\ crash_count' = IF flagged THEN crash_count + 1 ELSE crash_count
             /\ monLast' = << [line |-> line, delivered |-> delivered,
                               flagged |-> flagged] >>
    /\ monSent' = monSent + 1
    /\ UNCHANGED << filter_config, monPc >>

\* Ctrl+C: the statistics are shown and the menu comes back.
MonKeyboardInterrupt ==
    /\ UNCHANGED << guiVars, recVars, fltVars, prsVars >>
    /\ monPc = "monitoring"
    /\ monPc' = "menu"
    /\ UNCHANGED << filter_config, crash_count, line_count, monSent, monLast >>

MonNext ==
    \/ MonSetFilter
    \/ MonStartMonitoring
    \/ MonDeviceLine
    \/ MonKeyboardInterrupt

MonSpec == Init /\ [][MonNext]_vars

(***************************************************************************)
(* The UI thread: AdayoMegaTool.                                           *)
(***************************************************************************)
workerVars == << wPc, w_running, adb_process, wExit >>
procVars   == << procs, pipes, signals, waitOutcome, emitted >>
viewVars   == << logcat_table, logcat_total_lines, logcat_displayed_lines, accepted >>

\* Mutant: the re-entrancy check reads the worker's flag instead of the thread.
ThreadIsRunningByWorkerFlag == logcat_thread = "running" /\ w_running

\* Mutant: the guard on the thread is missing.
ThreadIsRunningUnchecked == TRUE

\* self.logcat_thread and self.logcat_thread.isRunning()
ThreadIsRunning == logcat_thread = "running"

\* StartLiveLogcat without the call of _clear_live_logcat_view: the rows and
\* counters of the previous session stay.
StartLiveLogcatKeepsView ==
    /\ UNCHANGED << recVars, fltVars, prsVars, monVars >>
    /\ uiPc = "ready"
    /\ IF ThreadIsRunning
       THEN /\ lastOp' = "start_noop"
            /\ UNCHANGED << logcat_thread, logcat_worker, viewVars,
                            logcat_filter_criteria, statusLog, workerVars,
                            sessionNo, signals, waitOutcome, wRead >>
       ELSE /\ sessionNo < MaxSessions
            /\ UNCHANGED viewVars
            /\ wRead' = << >>
            /\ sessionNo' = sessionNo + 1
            /\ logcat_worker' = sessionNo + 1
            /\ logcat_thread' = "running"
            /\ wPc' = "started"
            /\ w_running' = FALSE
            /\ adb_process' = 0
            /\ wExit' = "none"
            /\ statusLog' = << >>
            /\ signals' = << >>
            /\ waitOutcome' = "none"
            /\ lastOp' = "start"
            /\ UNCHANGED logcat_filter_criteria
    /\ UNCHANGED << uiPc, eventQueue, procs, pipes, emitted >>

\* _start_live_logcat (the device is connected: logic.serial is set).
StartLiveLogcat ==
    /\ UNCHANGED << recVars, fltVars, prsVars, monVars >>
    /\ uiPc = "ready"
    /\ IF ThreadIsRunning
       THEN /\ lastOp' = "start_noop"          \* warning "already running"
            /\ UNCHANGED << logcat_thread, logcat_worker, viewVars,
                            logcat_filter_criteria, statusLog, workerVars,
                            sessionNo, signals, waitOutcome, wRead >>
       ELSE /\ sessionNo < MaxSessions
            \* _clear_live_logcat_view
            /\ logcat_table' = << >>
            /\ logcat_displayed_lines' = 0
            /\ logcat_total_lines' = 0
            /\ accepted' = << >>
            \* a new worker on a new thread
            /\ wRead' = << >>
            /\ sessionNo' = sessionNo + 1
            /\ logcat_worker' = sessionNo + 1
            /\ logcat_thread' = "running"
            /\ wPc' = "started"
            /\ w_running' = FALSE
            /\ adb_process' = 0
            /\ wExit' = "none"
            /\ statusLog' = << >>
            /\ signals' = << >>
            /\ waitOutcome' = "none"
            /\ lastOp' = "start"
            /\ UNCHANGED logcat_filter_criteria
    /\ UNCHANGED << uiPc, eventQueue, procs, pipes, emitted >>

\* Mutant: the counters are reset but the rows stay in the table.
ClearLiveLogcatViewCountersOnly ==
    /\ UNCHANGED << recVars, fltVars, prsVars, monVars >>
    /\ uiPc = "ready"
    /\ logcat_displayed_lines' = 0
    /\ logcat_total_lines' = 0
    /\ lastOp' = "clear_view"
    /\ UNCHANGED wRead
    /\ UNCHANGED << logcat_table, accepted, logcat_thread, logcat_worker,
                    logcat_filter_criteria, uiPc, eventQueue, statusLog, workerVars,
                    procVars, sessionNo >>

\* Mutant: clearing the view also puts the criteria of __init__ back.
ClearLiveLogcatViewResetsCriteria ==
    /\ UNCHANGED << recVars, fltVars, prsVars, monVars >>
    /\ uiPc = "ready"
    /\ logcat_table' = << >>
    /\ logcat_displayed_lines' = 0
    /\ logcat_total_lines' = 0
    /\ accepted' = << >>
    /\ logcat_filter_criteria' = InitialCriteria
    /\ lastOp' = "clear_view"
    /\ UNCHANGED wRead
    /\ UNCHANGED << logcat_thread, logcat_worker, uiPc, eventQueue, statusLog,
                    workerVars, procVars, sessionNo >>

\* _clear_live_logcat_view
ClearLiveLogcatView ==
    /\ UNCHANGED << recVars, fltVars, prsVars, monVars >>
    /\ uiPc = "ready"
    /\ logcat_table' = << >>
    /\ logcat_displayed_lines' = 0
    /\ logcat_total_lines' = 0
    /\ accepted' = << >>
    /\ lastOp' = "clear_view"
    /\ UNCHANGED wRead
    /\ UNCHANGED << logcat_thread, logcat_worker, logcat_filter_criteria, uiPc,
                    eventQueue, statusLog, workerVars, procVars, sessionNo >>

\* Mutant: the rows already in the table are evaluated again under the new
\* criteria, and those no longer accepted are removed.
ApplyLiveLogcatFilterRefilters ==
    /\ UNCHANGED << recVars, fltVars, prsVars, monVars >>
    /\ uiPc = "ready"
    /\ \E in \in FilterInputs :
          /\ logcat_filter_criteria' = AppliedCriteria(logcat_filter_criteria, in)
          /\ lastOp' = IF ApplyRaisesReError(in) THEN "apply_filter_failed"
                       ELSE "apply_filter"
    /\ logcat_table' =
          SelectSeq(logcat_table, LAMBDA e : CheckLogFilter(e, logcat_filter_criteria'))
    /\ UNCHANGED wRead
    /\ UNCHANGED << logcat_thread, logcat_worker, logcat_total_lines,
                    logcat_displayed_lines, accepted, uiPc, eventQueue, statusLog,
                    workerVars, procVars, sessionNo >>

\* _apply_live_logcat_filter
ApplyLiveLogcatFilter ==
    /\ UNCHANGED << recVars, fltVars, prsVars, monVars >>
    /\ uiPc = "ready"
    /\ \E in \in FilterInputs :
          /\ logcat_filter_criteria' = AppliedCriteria(logcat_filter_criteria, in)
          \* the success message, or the "Regex error" box
          /\ lastOp' = IF ApplyRaisesReError(in) THEN "apply_filter_failed"
                       ELSE "apply_filter"
    /\ UNCHANGED wRead
    /\ UNCHANGED << logcat_thread, logcat_worker, viewVars, uiPc, eventQueue,
                    statusLog, workerVars, procVars, sessionNo >>

\* Mutant: when the table is full the newest row is removed, not the oldest.
InsertRowEvictsNewest(table, entry) ==
    IF Len(table) >= MAX_LIVE_LOG_ROWS
    THEN Append(SubSeq(table, 1, Len(table) - 1), entry)
    ELSE Append(table, entry)

\* Mutant: the oldest row is not removed when the table is full.
InsertRowNoEvict(table, entry) == Append(table, entry)

\* The rows of the table after _on_new_live_log has inserted an accepted entry.
InsertRow(table, entry) ==
    IF Len(table) >= MAX_LIVE_LOG_ROWS
    THEN Append(Tail(table), entry)       \* removeRow(0), then insertRow at the end
    ELSE Append(table, entry)

\* Mutant: the displayed counter is advanced before the filter is looked at.
OnNewLiveLogCountsRejected ==
    /\ UNCHANGED << recVars, fltVars, prsVars, monVars >>
    /\ uiPc = "ready"
    /\ eventQueue # << >>
    /\ LET entry == Head(eventQueue) IN
         /\ eventQueue' = Tail(eventQueue)
         /\ logcat_total_lines' = logcat_total_lines + 1
         /\ logcat_displayed_lines' = logcat_displayed_lines + 1
         /\ IF CheckLogFilter(entry, logcat_filter_criteria)
            THEN /\ logcat_table' = InsertRow(logcat_table, entry)
                 /\ accepted' = Append(accepted, entry)
            ELSE UNCHANGED << logcat_table, accepted >>
    /\ lastOp' = "new_log"
    /\ UNCHANGED wRead
    /\ UNCHANGED << logcat_thread, logcat_worker, logcat_filter_criteria, uiPc,
                    statusLog, workerVars, procVars, sessionNo >>

\* _on_new_live_log: the slot runs on the UI thread for each queued emission.
OnNewLiveLog ==
    /\ UNCHANGED << recVars, fltVars, prsVars, monVars >>
    /\ uiPc = "ready"
    /\ eventQueue # << >>
    /\ LET entry == Head(eventQueue) IN
         /\ eventQueue' = Tail(eventQueue)
         /\ logcat_total_lines' = logcat_total_lines + 1
         /\ IF CheckLogFilter(entry, logcat_filter_criteria)
            THEN /\ logcat_displayed_lines' = logcat_displayed_lines + 1
                 /\ logcat_table' = InsertRow(logcat_table, entry)
                 /\ accepted' = Append(accepted, entry)
            ELSE UNCHANGED << logcat_displayed_lines, logcat_table, accepted >>
    /\ lastOp' = "new_log"
    /\ UNCHANGED wRead
    /\ UNCHANGED << logcat_thread, logcat_worker, logcat_filter_criteria, uiPc,
                    statusLog, workerVars, procVars, sessionNo >>

\* status_signal.emit(text) / _on_live_monitor_status_update(text)
Status(text) == statusLog' = Append(statusLog, text)

\* LogcatMonitorWorker.stop_monitor, first statement: "if not self._running: return".
StopMonitorReturnsEarly(running) == ~running

\* _stop_live_logcat up to the first blocking call.  The UI thread calls
\* logcat_worker.stop_monitor() directly, then quit() and wait() on the thread.
StopLiveLogcat ==
    /\ UNCHANGED << recVars, fltVars, prsVars, monVars >>
    /\ uiPc = "ready"
    /\ IF ~ThreadIsRunning
       THEN /\ lastOp' = "stop_noop"
            /\ UNCHANGED << uiPc, w_running, signals, statusLog >>
       ELSE /\ lastOp' = "stop"
            /\ IF StopMonitorReturnsEarly(w_running)
               THEN /\ uiPc' = "join"
                    /\ UNCHANGED << w_running, signals, statusLog >>
               ELSE /\ w_running' = FALSE
                    /\ IF adb_process # 0
                       THEN /\ Status("stopping_process")
                            \* self._adb_process.terminate()
                            /\ signals' = Append(signals, "terminate")
                            /\ uiPc' = "wait3"
                       ELSE /\ uiPc' = "join"
                            /\ UNCHANGED << signals, statusLog >>
    /\ UNCHANGED wRead
    /\ UNCHANGED << logcat_thread, logcat_worker, viewVars, logcat_filter_criteria,
                    eventQueue, wPc, adb_process, wExit, procs, pipes, waitOutcome,
                    emitted, sessionNo >>

\* Mutant: the wait is treated as timed out whatever the process did.
WaitAlwaysTimesOut(procState) == FALSE

\* stop_monitor: self._adb_process.wait(timeout=3) returns True when the
\* process has exited, False when TimeoutExpired is raised.
WaitReturns(procState) == procState = "exited"

\* stop_monitor from wait(timeout=3) to its end: on TimeoutExpired kill() and
\* wait(timeout=1); then the handle is dropped.
StopMonitorWait ==
    /\ UNCHANGED << recVars, fltVars, prsVars, monVars >>
    /\ uiPc = "wait3"
    /\ LET p == adb_process IN
         IF WaitReturns(procs[p])
         THEN /\ waitOutcome' = "exited"
              /\ UNCHANGED << signals, procs >>
         ELSE /\ waitOutcome' = "timeout"
              /\ signals' = Append(signals, "kill")
              /\ procs' = [procs EXCEPT ![p] = "exited"]
    /\ adb_process' = 0
    /\ Status("process_cleaned")
    /\ uiPc' = "join"
    /\ UNCHANGED wRead
    /\ UNCHANGED << logcat_thread, logcat_worker, viewVars, logcat_filter_criteria,
                    eventQueue, lastOp, wPc, w_running, wExit, pipes, emitted,
                    sessionNo >>

\* _stop_live_logcat after logcat_thread.wait() has returned: the thread ends
\* once start_monitor has returned (quit() was requested).
StopJoin ==
    /\ UNCHANGED << recVars, fltVars, prsVars, monVars >>
    /\ uiPc = "join"
    /\ wPc = "returned"
    /\ logcat_worker' = 0
    /\ logcat_thread' = None
    /\ wPc' = "none"
    /\ adb_process' = 0
    /\ wExit' = "none"
    /\ pipes' = [pipes EXCEPT ![logcat_worker] = << >>]   \* the pipe goes with the worker
    /\ statusLog' = << "monitor_stopped" >>
    /\ uiPc' = "ready"
    /\ lastOp' = "stopped"
    /\ UNCHANGED wRead
    /\ UNCHANGED << viewVars, logcat_filter_criteria, eventQueue, w_running,
                    procs, signals, waitOutcome, emitted, sessionNo >>

(***************************************************************************)
(* The worker thread: LogcatMonitorWorker.start_monitor.                   *)
(***************************************************************************)
uiVars ==
    << logcat_thread, logcat_worker, viewVars, logcat_filter_criteria, uiPc,
       sessionNo >>

\* A step of the worker thread or of a producer is no UI operation.
BackgroundStep == lastOp' = "step"

\* start_monitor up to the buffer clear ("if self._running or not self.serial:
\* return"; the serial is set).
WorkerBegin ==
    /\ UNCHANGED << recVars, fltVars, prsVars, monVars >>
    /\ BackgroundStep
    /\ wPc = "started"
    /\ IF w_running
       THEN /\ wPc' = "returned"
            /\ UNCHANGED << w_running, statusLog >>
       ELSE /\ w_running' = TRUE
            /\ Status("starting")
            /\ wPc' = "clear"
    /\ UNCHANGED wRead
    /\ UNCHANGED << uiVars, eventQueue, adb_process, wExit, procVars >>

\* What subprocess.run(adb logcat -c, check=False, timeout=5) can do: return
\* with exit status 0, return with an error status, raise TimeoutExpired, raise
\* another exception (adb missing).
ClearOutcomes == {"clear_ok", "clear_error", "clear_timeout", "clear_exception"}

\* WorkerClearBuffer with a failed clear treated as a failed start.
WorkerClearBufferAbortsOnFailure ==
    /\ UNCHANGED << recVars, fltVars, prsVars, monVars >>
    /\ wPc = "clear"
    /\ \E outcome \in ClearOutcomes :
          /\ lastOp' = outcome
          /\ IF outcome = "clear_ok"
             THEN wPc' = "launch" /\ UNCHANGED wExit
             ELSE wPc' = "finally" /\ wExit' = "launch_failed"
    /\ UNCHANGED wRead
    /\ UNCHANGED << uiVars, eventQueue, statusLog, w_running, adb_process,
                    procVars >>

\* "try: subprocess.run(adb logcat -c, ...) except Exception: pass": the result
\* is not looked at and every exception is swallowed.
WorkerClearBuffer ==
    /\ UNCHANGED << recVars, fltVars, prsVars, monVars >>
    /\ \E outcome \in ClearOutcomes : lastOp' = outcome
    /\ wPc = "clear"
    /\ wPc' = "launch"
    /\ UNCHANGED wRead
    /\ UNCHANGED << uiVars, eventQueue, statusLog, w_running, adb_process, wExit,
                    procVars >>

\* subprocess.Popen(adb logcat -v threadtime): launched, FileNotFoundError, or
\* another exception.
WorkerLaunch ==
    /\ UNCHANGED << recVars, fltVars, prsVars, monVars >>
    /\ BackgroundStep
    /\ wPc = "launch"
    /\ \E outcome \in {"ok", "not_found", "error"} :
         CASE outcome = "ok" ->
                /\ adb_process' = logcat_worker
                /\ procs' = [procs EXCEPT ![logcat_worker] = "alive"]
                /\ statusLog' = statusLog \o << "exec_cmd", "started_ok" >>
                /\ wPc' = "read"
                /\ UNCHANGED wExit
           [] outcome = "not_found" ->
                /\ statusLog' = statusLog \o << "exec_cmd", "adb_not_found" >>
                /\ wExit' = "launch_failed"
                /\ wPc' = "finally"
                /\ UNCHANGED << adb_process, procs >>
           [] outcome = "error" ->
                /\ statusLog' = statusLog \o
                      (IF w_running THEN << "exec_cmd", "start_failed" >>
                       ELSE << "exec_cmd" >>)
                /\ wExit' = "launch_failed"
                /\ wPc' = "finally"
                /\ UNCHANGED << adb_process, procs >>
    /\ UNCHANGED wRead
    /\ UNCHANGED << uiVars, eventQueue, w_running, pipes, signals, waitOutcome,
                    emitted >>

\* One iteration of "for line in iter(stdout.readline, '')" with a line read.
\* The worker reads the pipe of the process it launched.
WorkerReadLine ==
    /\ UNCHANGED << recVars, fltVars, prsVars, monVars >>
    /\ wPc = "read"
    /\ pipes[logcat_worker] # << >>
    /\ LET line == Head(pipes[logcat_worker]) IN
         /\ lastOp' = IF /\ LineSamples[line.s].decodes
                          /\ w_running
                          /\ ~LineSamples[line.s].matches
                       THEN "read_no_match"   \* LOGCAT_REGEX.match(line) is None
                       ELSE "step"
         /\ pipes' = [pipes EXCEPT ![logcat_worker] = Tail(@)]
         /\ wRead' = Append(wRead, line.seq)
         /\ IF ~LineSamples[line.s].decodes
            THEN \* UnicodeDecodeError: "except Exception"
                 /\ statusLog' = IF w_running THEN Append(statusLog, "start_failed")
                                 ELSE statusLog
                 /\ wExit' = "read_error"
                 /\ wPc' = "finally"
                 /\ UNCHANGED eventQueue
            ELSE IF ~w_running
            THEN \* "if not self._running: break"
                 /\ wExit' = "stopped"
                 /\ wPc' = "finally"
                 /\ UNCHANGED << eventQueue, statusLog >>
            ELSE /\ eventQueue' = eventQueue \o ParseLogLine(line)
                 /\ UNCHANGED << wExit, wPc, statusLog >>
    /\ UNCHANGED << uiVars, w_running, adb_process, procs, signals, waitOutcome,
                    emitted >>

\* readline returns '' (end of output): the loop ends.
WorkerReadEOF ==
    /\ UNCHANGED << recVars, fltVars, prsVars, monVars >>
    /\ BackgroundStep
    /\ wPc = "read"
    /\ pipes[logcat_worker] = << >>
    /\ procs[logcat_worker] = "exited"
    /\ wExit' = IF w_running THEN "eof" ELSE "stopped"
    /\ wPc' = "finally"
    /\ UNCHANGED wRead
    /\ UNCHANGED << uiVars, eventQueue, statusLog, w_running, adb_process, procVars >>

\* finally: "self._running = False; self.stop_monitor()".
WorkerFinally ==
    /\ UNCHANGED << recVars, fltVars, prsVars, monVars >>
    /\ BackgroundStep
    /\ wPc = "finally"
    /\ w_running' = FALSE
    /\ IF StopMonitorReturnsEarly(FALSE)
       THEN UNCHANGED << adb_process, statusLog, signals >>
       ELSE /\ adb_process # 0
            /\ signals' = Append(signals, "terminate")
            /\ adb_process' = 0
            /\ statusLog' = statusLog \o << "stopping_process", "process_cleaned" >>
    /\ wPc' = "returned"
    /\ UNCHANGED wRead
    /\ UNCHANGED << uiVars, eventQueue, wExit, procs, pipes, waitOutcome, emitted >>

(***************************************************************************)
(* The producer processes.                                                 *)
(***************************************************************************)
ProducerEmit(k) ==
    /\ UNCHANGED << recVars, fltVars, prsVars, monVars >>
    /\ BackgroundStep
    /\ procs[k] = "alive"
    /\ k = logcat_worker                 \* the pipe has a reader
    /\ emitted < MaxLines
    /\ Len(pipes[k]) < MaxPipe
    /\ \E s \in DOMAIN LineSamples :
          pipes' = [pipes EXCEPT ![k] = Append(@, RawLine(emitted + 1, s))]
    /\ emitted' = emitted + 1
    /\ UNCHANGED wRead
    /\ UNCHANGED << uiVars, eventQueue, statusLog, workerVars, procs, signals,
                    waitOutcome >>

\* The process ends: on its own, or as its reaction to a signal.
ProducerExit(k) ==
    /\ UNCHANGED << recVars, fltVars, prsVars, monVars >>
    /\ BackgroundStep
    /\ procs[k] = "alive"
    /\ procs' = [procs EXCEPT ![k] = "exited"]
    /\ UNCHANGED wRead
    /\ UNCHANGED << uiVars, eventQueue, statusLog, workerVars, pipes, signals,
                    waitOutcome, emitted >>

\* The slot _on_new_live_log is no part of Next: with _parse_log_line
\* returning None for every line, new_log_line_signal is never emitted.
Next ==
    \/ StartLiveLogcat
    \/ StopLiveLogcat
    \/ StopMonitorWait
    \/ StopJoin
    \/ ClearLiveLogcatView
    \/ ApplyLiveLogcatFilter
    \/ WorkerBegin
    \/ WorkerClearBuffer
    \/ WorkerLaunch
    \/ WorkerReadLine
    \/ WorkerReadEOF
    \/ WorkerFinally
    \/ \E k \in Sessions : ProducerEmit(k)
    \/ \E k \in Sessions : ProducerExit(k)

Spec == Init /\ [][Next]_vars

\* The live monitor under either binding of the name datetime: the same
\* threads, and the slot serving the emissions of new_log_line_signal.
ViewNext ==
    \/ Next
    \/ OnNewLiveLog

ViewSpec == ViewInit /\ [][ViewNext]_vars

(***************************************************************************)
(* The background recorder: LiveLogcatPro (ai_root_gain.py).               *)
(* The main thread runs the menu; each accepted start_background starts a  *)
(* _recorder_worker thread.                                                *)
(***************************************************************************)
\* LiveLogcatPro.start_background up to the two driver.run calls.
RecStartBackground ==
    /\ UNCHANGED << guiVars, fltVars, prsVars, monVars >>
    /\ mainPc = "menu"
    /\ IF is_recording
       THEN /\ recLastOp' = "start_noop"       \* "already recording"
            /\ UNCHANGED << is_recording, rotation_index, start_time, mainPc,
                            recSessionNo >>
       ELSE /\ recSessionNo < MaxSessions
            /\ is_recording' = TRUE
            /\ rotation_index' = 0
            /\ start_time' = recSessionNo + 1
            /\ recSessionNo' = recSessionNo + 1
            /\ mainPc' = "starting"
            /\ recLastOp' = "start"
    /\ UNCHANGED << current_file_path, log_thread, recWorkerVars, files, recEmitted >>

\* start_background after driver.run("logcat -G 20M") and driver.run("logcat -c")
\* (results ignored): the worker thread is started and the dashboard is shown.
RecStartThread ==
    /\ UNCHANGED << guiVars, fltVars, prsVars, monVars >>
    /\ mainPc = "starting"
    /\ log_thread' = recSessionNo
    /\ rPc' = [rPc EXCEPT ![recSessionNo] = "init"]
    /\ mainPc' = "dashboard"
    /\ recLastOp' = "thread_started"
    /\ UNCHANGED << is_recording, rotation_index, start_time, current_file_path,
                    recSessionNo, rTs, rF, rWith, rTell, rOpen, rProc, rPipe, rRead,
                    rTermSent, files, recEmitted >>

\* show_recording_dashboard returns (Ctrl+C, or is_recording is false).
RecDashboardReturn ==
    /\ UNCHANGED << guiVars, fltVars, prsVars, monVars >>
    /\ mainPc = "dashboard"
    /\ mainPc' = "menu"
    /\ recLastOp' = "dashboard_exit"
    /\ UNCHANGED << is_recording, rotation_index, start_time, current_file_path,
                    log_thread, recSessionNo, recWorkerVars, files, recEmitted >>

\* LiveLogcatPro.stop up to log_thread.join(timeout=2).
RecStop ==
    /\ UNCHANGED << guiVars, fltVars, prsVars, monVars >>
    /\ mainPc = "menu"
    /\ IF ~is_recording
       THEN /\ recLastOp' = "stop_noop"        \* "not recording"
            /\ UNCHANGED << is_recording, mainPc >>
       ELSE /\ recLastOp' = "stop"
            /\ is_recording' = FALSE
            /\ mainPc' = IF log_thread # 0 THEN "joining" ELSE "menu"
    /\ UNCHANGED << rotation_index, start_time, current_file_path, log_thread,
                    recSessionNo, recWorkerVars, files, recEmitted >>

\* The worker waits in process.stdout.readline(): nothing to read, producer alive.
RecBlockedInReadline(k) ==
    /\ rPc[k] = "read"
    /\ rPipe[k] = << >>
    /\ rProc[k] = "alive"

\* log_thread.join(timeout=2) returns: the worker has ended, or 2 s have passed
\* (a worker that can run ends sooner; 2 s pass while it waits for its producer).
JoinReturns(k) == rPc[k] = "done" \/ RecBlockedInReadline(k)

\* stop after the join: the summary is printed and stop returns to the menu.
RecStopJoin ==
    /\ UNCHANGED << guiVars, fltVars, prsVars, monVars >>
    /\ mainPc = "joining"
    /\ JoinReturns(log_thread)
    /\ mainPc' = "menu"
    /\ recLastOp' = IF rPc[log_thread] = "done" THEN "stopped" ELSE "stopped_join_timeout"
    /\ UNCHANGED << is_recording, rotation_index, start_time, current_file_path,
                    log_thread, recSessionNo, recWorkerVars, files, recEmitted >>

\* A step of a recorder worker or of a producer is no operation of the main thread.
RecBackgroundStep == recLastOp' = "step"

recMainFrame ==
    << is_recording, start_time, log_thread, mainPc, recSessionNo >>

\* _recorder_worker: timestamp_base and the first path (_get_new_filepath).
RecWorkerInit(k) ==
    /\ UNCHANGED << guiVars, fltVars, prsVars, monVars >>
    /\ RecBackgroundStep
    /\ rPc[k] = "init"
    /\ rTs' = [rTs EXCEPT ![k] = k]
    /\ rotation_index' = rotation_index + 1
    /\ current_file_path' = << k, rotation_index + 1 >>
    /\ rPc' = [rPc EXCEPT ![k] = "popen"]
    /\ UNCHANGED << recMainFrame, rF, rWith, rTell, rOpen, rProc, rPipe, rRead,
                    rTermSent, files, recEmitted >>

\* subprocess.Popen(adb logcat -v threadtime): launched, or an exception.
RecWorkerPopen(k) ==
    /\ UNCHANGED << guiVars, fltVars, prsVars, monVars >>
    /\ RecBackgroundStep
    /\ rPc[k] = "popen"
    /\ \E ok \in BOOLEAN :
         IF ok
         THEN /\ rProc' = [rProc EXCEPT ![k] = "alive"]
              /\ rPc' = [rPc EXCEPT ![k] = "open"]
         ELSE /\ rPc' = [rPc EXCEPT ![k] = "done"]     \* "except Exception": print
              /\ UNCHANGED rProc
    /\ UNCHANGED << recMainFrame, rotation_index, current_file_path, rTs, rF, rWith,
                    rTell, rOpen, rPipe, rRead, rTermSent, files, recEmitted >>

\* with open(self.current_file_path, "w") as f: opened, or an exception.
RecWorkerOpen(k) ==
    /\ UNCHANGED << guiVars, fltVars, prsVars, monVars >>
    /\ RecBackgroundStep
    /\ rPc[k] = "open"
    /\ \E ok \in BOOLEAN :
         IF ok
         THEN /\ files' = (current_file_path :> << >>) @@ files
              /\ rF' = [rF EXCEPT ![k] = current_file_path]
              /\ rWith' = [rWith EXCEPT ![k] = current_file_path]
              /\ rTell' = [rTell EXCEPT ![k] = 0]
              /\ rOpen' = [rOpen EXCEPT ![k] = @ \cup {current_file_path}]
              /\ rPc' = [rPc EXCEPT ![k] = "loop"]
         ELSE /\ rPc' = [rPc EXCEPT ![k] = "done"]     \* "except Exception": print
              /\ UNCHANGED << files, rF, rWith, rTell, rOpen >>
    /\ UNCHANGED << recMainFrame, rotation_index, current_file_path, rTs, rProc,
                    rPipe, rRead, rTermSent, recEmitted >>

\* "while self.is_recording": when false the with block is left (its file
\* object is closed) and process.terminate() is called.
RecWorkerLoopCheck(k) ==
    /\ UNCHANGED << guiVars, fltVars, prsVars, monVars >>
    /\ RecBackgroundStep
    /\ rPc[k] = "loop"
    /\ IF is_recording
       THEN /\ rPc' = [rPc EXCEPT ![k] = "read"]
            /\ UNCHANGED << rOpen, rTermSent >>
       ELSE /\ rOpen' = [rOpen EXCEPT ![k] = @ \ {rWith[k]}]
            /\ rTermSent' = [rTermSent EXCEPT ![k] = TRUE]
            /\ rPc' = [rPc EXCEPT ![k] = "done"]
    /\ UNCHANGED << recMainFrame, rotation_index, current_file_path, rTs, rF, rWith,
                    rTell, rProc, rPipe, rRead, files, recEmitted >>

\* line = process.stdout.readline() returned a line: f.write(line), then the
\* size check and, above the threshold, the rotation.
RecWorkerReadLine(k) ==
    /\ UNCHANGED << guiVars, fltVars, prsVars, monVars >>
    /\ RecBackgroundStep
    /\ rPc[k] = "read"
    /\ rPipe[k] # << >>
    /\ LET line    == Head(rPipe[k])
           newPath == << rTs[k], rotation_index + 1 >>
           written == [files EXCEPT ![rF[k]] = Append(@, line)]
       IN
         /\ rPipe' = [rPipe EXCEPT ![k] = Tail(@)]
         /\ rRead' = [rRead EXCEPT ![k] = Append(@, line)]
         /\ \E writeOk \in BOOLEAN, openOk \in BOOLEAN :
              IF ~writeOk
              THEN \* f.write raises: the with block closes its file object
                   /\ openOk
                   /\ rOpen' = [rOpen EXCEPT ![k] = @ \ {rWith[k]}]
                   /\ rPc' = [rPc EXCEPT ![k] = "done"]
                   /\ UNCHANGED << files, rF, rTell, rotation_index, current_file_path >>
              ELSE IF rTell[k] + 1 > RotateThreshold
              THEN \* f.close(); _get_new_filepath; f = open(new path, "w")
                   /\ rotation_index' = rotation_index + 1
                   /\ current_file_path' = newPath
                   /\ IF openOk
                      THEN /\ files' = (newPath :> << >>) @@ written
                           /\ rF' = [rF EXCEPT ![k] = newPath]
                           /\ rTell' = [rTell EXCEPT ![k] = 0]
                           /\ rOpen' = [rOpen EXCEPT ![k] = (@ \ {rF[k]}) \cup {newPath}]
                           /\ rPc' = [rPc EXCEPT ![k] = "loop"]
                      ELSE /\ files' = written
                           /\ rTell' = [rTell EXCEPT ![k] = @ + 1]
                           /\ rOpen' = [rOpen EXCEPT ![k] = (@ \ {rF[k]}) \ {rWith[k]}]
                           /\ rPc' = [rPc EXCEPT ![k] = "done"]
                           /\ UNCHANGED rF
              ELSE /\ openOk
                   /\ files' = written
                   /\ rTell' = [rTell EXCEPT ![k] = @ + 1]
                   /\ rPc' = [rPc EXCEPT ![k] = "loop"]
                   /\ UNCHANGED << rF, rOpen, rotation_index, current_file_path >>
    /\ UNCHANGED << recMainFrame, rTs, rWith, rProc, rTermSent, recEmitted >>

\* readline returned '' (end of output): break, leave the with block, terminate.
RecWorkerReadEOF(k) ==
    /\ UNCHANGED << guiVars, fltVars, prsVars, monVars >>
    /\ RecBackgroundStep
    /\ rPc[k] = "read"
    /\ rPipe[k] = << >>
    /\ rProc[k] = "exited"
    /\ rOpen' = [rOpen EXCEPT ![k] = @ \ {rWith[k]}]
    /\ rTermSent' = [rTermSent EXCEPT ![k] = TRUE]
    /\ rPc' = [rPc EXCEPT ![k] = "done"]
    /\ UNCHANGED << recMainFrame, rotation_index, current_file_path, rTs, rF, rWith,
                    rTell, rProc, rPipe, rRead, files, recEmitted >>

RecProducerEmit(k) ==
    /\ UNCHANGED << guiVars, fltVars, prsVars, monVars >>
    /\ RecBackgroundStep
    /\ rProc[k] = "alive"
    /\ rPc[k] # "done"                     \* the pipe has a reader
    /\ recEmitted < RecMaxLines
    /\ Len(rPipe[k]) < MaxPipe
    /\ rPipe' = [rPipe EXCEPT ![k] = Append(@, recEmitted + 1)]
    /\ recEmitted' = recEmitted + 1
    /\ UNCHANGED << recMainFrame, rotation_index, current_file_path, rPc, rTs, rF,
                    rWith, rTell, rOpen, rProc, rRead, rTermSent, files >>

\* The process ends: on its own, or as its reaction to terminate().
RecProducerExit(k) ==
    /\ UNCHANGED << guiVars, fltVars, prsVars, monVars >>
    /\ RecBackgroundStep
    /\ rProc[k] = "alive"
    /\ rProc' = [rProc EXCEPT ![k] = "exited"]
    /\ UNCHANGED << recMainFrame, rotation_index, current_file_path, rPc, rTs, rF,
                    rWith, rTell, rOpen, rPipe, rRead, rTermSent, files, recEmitted >>

RecWorkerStep(k) ==
    \/ RecWorkerInit(k)
    \/ RecWorkerPopen(k)
    \/ RecWorkerOpen(k)
    \/ RecWorkerLoopCheck(k)
    \/ RecWorkerReadLine(k)
    \/ RecWorkerReadEOF(k)

RecNext ==
    \/ RecStartBackground
    \/ RecStartThread
    \/ RecDashboardReturn
    \/ RecStop
    \/ RecStopJoin
    \/ \E k \in Sessions : RecWorkerInit(k)
    \/ \E k \in Sessions : RecWorkerPopen(k)
    \/ \E k \in Sessions : RecWorkerOpen(k)
    \/ \E k \in Sessions : RecWorkerLoopCheck(k)
    \/ \E k \in Sessions : RecWorkerReadLine(k)
    \/ \E k \in Sessions : RecWorkerReadEOF(k)
    \/ \E k \in Sessions : RecProducerEmit(k)
    \/ \E k \in Sessions : RecProducerExit(k)

RecSpec == Init /\ [][RecNext]_vars

\* The threads are scheduled: a worker that can take a step takes it, and a
\* call on the main thread that can return returns.  Nothing obliges the user
\* to act or the producer to write or to exit.
RecFairSpec ==
    /\ RecSpec
    /\ \A k \in Sessions : WF_vars(RecWorkerStep(k))
    /\ WF_vars(RecStartThread)
    /\ WF_vars(RecStopJoin)

(***************************************************************************)
(* The live monitor and the recorder are two programs with no state in     *)
(* common: a run of the tools is a run of one of them, the other one       *)
(* being as it was constructed.                                            *)
(***************************************************************************)
ToolsNext ==
    \/ RecInit /\ ViewNext
    \/ GuiInit /\ RecNext

ToolsSpec == ViewInit /\ [][ToolsNext]_vars

(***************************************************************************)
(* Session state of the live monitor, read off the controller and the      *)
(* worker.  The controller regards the session as running while the thread *)
(* is running (_start_live_logcat / _stop_live_logcat test                 *)
(* logcat_thread.isRunning()); ENDED is the condition in which the worker  *)
(* has left start_monitor while the thread is still running.               *)
(***************************************************************************)
SessionState ==
    IF uiPc # "ready" THEN "STOPPING"
    ELSE IF logcat_thread # "running" THEN "IDLE"
    ELSE IF wPc \in {"started", "clear", "launch"} THEN "STARTING"
    ELSE IF wPc = "read" THEN "RUNNING"
    ELSE "ENDED"

\* Everything but lastOp.
stateVars ==
    << logcat_thread, logcat_worker, viewVars, logcat_filter_criteria, uiPc,
       eventQueue, statusLog, workerVars, procVars, sessionNo, wRead >>

\* Status texts that report the end of a worker's run.
EndReports == {"adb_not_found", "start_failed", "stopping_process", "process_cleaned"}

EndReportCount == Len(SelectSeq(statusLog, LAMBDA s : s \in EndReports))

(***************************************************************************)
(* Claims.                                                                 *)
(***************************************************************************)
SpecTransitions ==
    { << "IDLE", "STARTING" >>, << "STARTING", "RUNNING" >>,
      << "RUNNING", "STOPPING" >>, << "STOPPING", "IDLE" >>,
      << "STARTING", "IDLE" >> }

\* C1: the session state only moves along IDLE -> STARTING -> RUNNING ->
\* STOPPING -> IDLE, plus STARTING -> IDLE on a launch failure; no other
\* transition occurs.
C1_OnlySpecTransitions ==
    [][SessionState' # SessionState
         => << SessionState, SessionState' >> \in SpecTransitions]_vars

\* C2: a start issued while the session is running launches no second worker
\* and no second producer, and leaves the view, the counters and the filter
\* criteria unchanged; only the warning is reported.
C2_ReentrantStartIsNoOp ==
    [][(lastOp' \in {"start", "start_noop"} /\ logcat_thread = "running")
         => (lastOp' = "start_noop" /\ UNCHANGED stateVars)]_vars

C2_Witness ==
    /\ lastOp = "start_noop"
    /\ wPc = "read"
    /\ logcat_table # << >>

\* C3: a stop on a session that is not running (never started, or stopped
\* before) changes no state; a second stop in a row changes nothing.
C3_StopWhenStoppedIsNoOp ==
    [][(lastOp' \in {"stop", "stop_noop"} /\ logcat_thread # "running")
         => (lastOp' = "stop_noop" /\ UNCHANGED stateVars)]_vars

C3_Witness ==
    /\ lastOp = "stop_noop"
    /\ sessionNo > 0
    /\ logcat_table # << >>

\* C4: after stop is called on a running session the worker eventually leaves
\* its read loop and ends, whatever the producer does, including a producer
\* that writes nothing more (a session started again in the meantime is left
\* aside).
C4_StopEndsWorker ==
    \A k \in Sessions :
        (mainPc = "joining" /\ log_thread = k) ~> (rPc[k] = "done" \/ is_recording)

\* C5: on every path by which the worker's read loop ends, the producer is
\* afterwards not alive and its handle is released: when the worker has
\* returned and no stop is in progress, and when the worker is gone, no
\* producer is alive or still referenced.
C5_ProducerReleasedOnEveryExit ==
    /\ (wPc = "returned" /\ uiPc = "ready")
          => (adb_process = 0 /\ procs[logcat_worker] # "alive")
    /\ wPc = "none" => \A k \in Sessions : procs[k] # "alive"

\* C6: in stop_monitor terminate() is called first; kill() is called only when
\* the producer is still alive at the end of the wait, never when it has
\* exited within the wait, and always when it has not.
C6_KillOnlyAfterTimedOutWait ==
    [][/\ signals' # signals /\ signals' # << >>
          => \/ signals = << >> /\ signals' = << "terminate" >>
             \/ /\ signals = << "terminate" >>
                /\ signals' = << "terminate", "kill" >>
                /\ uiPc = "wait3"
                /\ procs[adb_process] = "alive"
       /\ (uiPc = "wait3" /\ uiPc' # "wait3")
          => IF procs[adb_process] = "alive"
             THEN signals' = << "terminate", "kill" >> /\ procs'[adb_process] = "exited"
             ELSE signals' = << "terminate" >>]_vars

C6_Witness ==
    /\ uiPc = "join"
    /\ waitOutcome = "timeout"
    /\ signals = << "terminate", "kill" >>

\* C7: when the producer exits on its own while the session is RUNNING, this
\* is reported exactly once and the session is forced to IDLE (a later start
\* launches a new producer).
C7_ProducerExitForcesIdle ==
    (wExit = "eof" /\ wPc = "returned" /\ uiPc = "ready")
       => (EndReportCount = 1 /\ logcat_thread # "running")

\* C8: when the producer cannot be launched, the failure is reported once and
\* the session ends in IDLE (not considered running; a later start launches).
C8_LaunchFailureEndsIdle ==
    (wExit = "launch_failed" /\ wPc = "returned" /\ uiPc = "ready")
       => (EndReportCount = 1 /\ logcat_thread # "running")

\* C9: the session is marked stopped after a stop only once the worker has
\* finished and the archive segment is closed: whenever stop has returned and
\* no recording is marked running, no worker is still in _recorder_worker and
\* none holds an open segment.
C9_IdleOnlyAfterWorkerDone ==
    (mainPc = "menu" /\ ~is_recording)
       => \A k \in Sessions : rPc[k] \in {"none", "done"} /\ rOpen[k] = {}

\* C10: the live view never holds more than MAX_LIVE_LOG_ROWS rows.
C10_ViewBounded == Len(logcat_table) <= MAX_LIVE_LOG_ROWS

C10_Witness ==
    /\ Len(logcat_table) = MAX_LIVE_LOG_ROWS
    /\ logcat_displayed_lines > MAX_LIVE_LOG_ROWS

\* The last n elements of a sequence (all of it when it is shorter).
LastN(seq, n) ==
    IF Len(seq) <= n THEN seq ELSE SubSeq(seq, Len(seq) - n + 1, Len(seq))

\* C11: the live view holds exactly the MAX_LIVE_LOG_ROWS most recently accepted
\* records since the view was last emptied, oldest first, whatever their levels:
\* a push onto a full view evicts exactly the oldest record.
C11_ViewIsNewestAccepted == logcat_table = LastN(accepted, MAX_LIVE_LOG_ROWS)

\* More than MAX_LIVE_LOG_ROWS records were accepted; the first, a FATAL one,
\* has been evicted by a VERBOSE one.
C11_Witness ==
    /\ Len(accepted) = MAX_LIVE_LOG_ROWS + 1
    /\ accepted[1].level = LogLevel.FATAL
    /\ accepted[Len(accepted)].level = LogLevel.VERBOSE
    /\ logcat_table = Tail(accepted)

\* The severity order of the levels: VERBOSE < DEBUG < INFO < WARN < ERROR < FATAL.
Severity(level) ==
    CASE level = "V" -> 0 [] level = "D" -> 1 [] level = "I" -> 2
      [] level = "W" -> 3 [] level = "E" -> 4 [] level = "F" -> 5
      [] OTHER -> 0 - 1

\* C12: with no other criterion set, the filter accepts a record of one of the
\* six severities exactly when its severity is at least min_level in the order
\* VERBOSE < DEBUG < INFO < WARN < ERROR < FATAL.
C12_LevelCheckFollowsSeverity ==
    (/\ fChecked
     /\ fEntry.level # LogLevel.UNKNOWN
     /\ fCriteria.tag_regex = None
     /\ fCriteria.msg_regex = None
     /\ fCriteria.pid_tid.none)
       => (fAccepts <=> Severity(fEntry.level) >= Severity(fCriteria.min_level))

\* C13: when min_level is tightened and the other criteria stay the same, a
\* record accepted under the stricter level was accepted under the looser one.
C13_TighterLevelAcceptsNoMore ==
    (/\ fChecked
     /\ fPrev.set
     /\ fEntry.level # LogLevel.UNKNOWN
     /\ fCriteria.tag_regex = fPrev.criteria.tag_regex
     /\ fCriteria.msg_regex = fPrev.criteria.msg_regex
     /\ fCriteria.pid_tid = fPrev.criteria.pid_tid
     /\ Severity(fCriteria.min_level) > Severity(fPrev.criteria.min_level))
       => (fAccepts => fPrev.accepts)

\* C14: the filter accepts a record exactly when the level check passes, the
\* PID/TID list, if one is set (with or without members), holds the pid or
\* the tid, the tag pattern, if set, matches the tag and the message pattern,
\* if set, matches the message.
C14_AcceptsIffAllFourPass ==
    fChecked
       => (fAccepts <=>
             /\ LevelPasses(fEntry, fCriteria)
             /\ ~fCriteria.pid_tid.none
                   => (fEntry.pid \in fCriteria.pid_tid.ids
                       \/ fEntry.tid \in fCriteria.pid_tid.ids)
             /\ fCriteria.tag_regex # None
                   => RegexSearch(fCriteria.tag_regex, fEntry.tag)
             /\ fCriteria.msg_regex # None
                   => RegexSearch(fCriteria.msg_regex, fEntry.message))

\* C15: applying a filter while the session is RUNNING leaves the rows of the
\* view, both counters, the worker and the producer as they are and the session
\* RUNNING; each record processed afterwards is accepted exactly when the
\* criteria in force at that moment accept it.
C15_ApplyFilterKeepsViewAndIngestion ==
    [][/\ (lastOp' \in {"apply_filter", "apply_filter_failed"}
             /\ SessionState = "RUNNING")
          => /\ UNCHANGED << viewVars, workerVars, procVars, eventQueue,
                             logcat_thread, logcat_worker, wRead >>
             /\ SessionState' = "RUNNING"
       /\ lastOp' = "new_log"
          => /\ logcat_total_lines' = logcat_total_lines + 1
             /\ (accepted' # accepted)
                   <=> CheckLogFilter(Head(eventQueue), logcat_filter_criteria)]_vars

\* A filter was applied while RUNNING and the view still shows a row that the
\* criteria now in force reject.
C15_Witness ==
    /\ lastOp = "apply_filter"
    /\ SessionState = "RUNNING"
    /\ \E i \in DOMAIN logcat_table :
          ~CheckLogFilter(logcat_table[i], logcat_filter_criteria)

\* C16: the criteria in force are always one complete snapshot: after a
\* successful apply they are the four values of that call, and an apply that
\* fails on an invalid pattern leaves them exactly as they were.
C16_CriteriaReplacedWholesale ==
    [][/\ lastOp' = "apply_filter"
          => \E in \in FilterInputs :
                /\ ~ApplyRaisesReError(in)
                /\ logcat_filter_criteria' = AppliedCriteria(InitialCriteria, in)
       /\ lastOp' = "apply_filter_failed"
          => logcat_filter_criteria' = logcat_filter_criteria]_vars

\* C17: clearing the view while the session is RUNNING empties the view and
\* leaves the worker, the producer, the queued records and the criteria as they
\* are and the session RUNNING; a record accepted afterwards is appended after
\* the rows then in the view.
C17_ClearViewKeepsIngestion ==
    [][/\ (lastOp' = "clear_view" /\ SessionState = "RUNNING")
          => /\ logcat_table' = << >>
             /\ UNCHANGED << workerVars, procVars, eventQueue, logcat_thread,
                             logcat_worker, logcat_filter_criteria, wRead >>
             /\ SessionState' = "RUNNING"
       /\ (lastOp' = "new_log" /\ accepted' # accepted)
          => /\ logcat_table' # << >>
             /\ logcat_table'[Len(logcat_table')] = Head(eventQueue)
             /\ Len(logcat_table) < MAX_LIVE_LOG_ROWS
                   => logcat_table' = Append(logcat_table, Head(eventQueue))]_vars

\* The view was cleared while RUNNING, after records had been read, with the
\* producer alive and a record waiting to be processed.
C17_Witness ==
    /\ lastOp = "clear_view"
    /\ SessionState = "RUNNING"
    /\ procs[logcat_worker] = "alive"
    /\ Len(wRead) >= 2
    /\ eventQueue # << >>

RECURSIVE ConcatParts(_, _, _)
ConcatParts(ts, p, maxp) ==
    IF p > maxp THEN << >>
    ELSE (IF << ts, p >> \in DOMAIN files THEN files[<< ts, p >>] ELSE << >>)
         \o ConcatParts(ts, p + 1, maxp)

\* The highest part number a segment can carry.
MaxPart == RecMaxLines + MaxSessions

\* The worker has met no exception: it is still running, or it has left
\* _recorder_worker through process.terminate().
RecNoException(k) == rPc[k] \notin {"none", "done"} \/ rTermSent[k]

\* C19: for every recorder worker that met no I/O error, the segments of its
\* recording, concatenated in part order, are exactly the lines it has read
\* from its producer, in order.
C19_SegmentsReproduceStream ==
    \A k \in Sessions :
        (rTs[k] # 0 /\ RecNoException(k))
           => ConcatParts(rTs[k], 1, MaxPart) = rRead[k]

\* The part numbers of the segments of the recording with timestamp ts.
PartsOf(ts) == {p \in 1..MaxPart : << ts, p >> \in DOMAIN files}

\* C20: of the segments of a recording, every one but the last is larger than
\* the threshold and none exceeds the threshold by more than one line; the
\* segment a worker writes to has not passed the threshold.
C20_RotationExactlyAboveThreshold ==
    \A k \in Sessions :
        (rTs[k] # 0 /\ RecNoException(k))
           => /\ \A p \in PartsOf(rTs[k]) :
                    /\ Len(files[<< rTs[k], p >>]) <= RotateThreshold + 1
                    /\ (\E q \in PartsOf(rTs[k]) : q > p)
                          => Len(files[<< rTs[k], p >>]) > RotateThreshold
              /\ rTell[k] <= RotateThreshold

\* C21: the segments of a recording carry the part numbers 1..N without gap:
\* the first segment is part 1 and each rotation adds the next number.
C21_PartsAreConsecutiveFromOne ==
    \A k \in Sessions :
        rTs[k] # 0 => PartsOf(rTs[k]) = 1..Cardinality(PartsOf(rTs[k]))

\* C22: an archive I/O failure does not end ingestion: a step in which the
\* worker has read a line from its producer never ends the worker.
C22_ArchiveFailureKeepsIngesting ==
    [][\A k \in Sessions :
          rRead'[k] # rRead[k] => rPc'[k] # "done"]_vars

\* C25: a line that does not match the expected structure never stops the
\* pipeline: the step that reads it leaves the worker in its read loop and
\* running, emits nothing, and leaves the view, the counters and the status
\* texts as they were.
C25_UnmatchedLineIsSkipped ==
    [][(/\ wPc = "read"
        /\ w_running
        /\ wRead' # wRead
        /\ LineSamples[Head(pipes[logcat_worker]).s].decodes
        /\ ~LineSamples[Head(pipes[logcat_worker]).s].matches)
       => (/\ wPc' = "read"
           /\ w_running'
           /\ UNCHANGED << viewVars, eventQueue, statusLog, wExit, procs >>)]_vars

\* An unmatched line has just been read while the view holds a row, and the
\* worker is still in its read loop with a live producer.
C25_Witness ==
    /\ lastOp = "read_no_match"
    /\ wPc = "read"
    /\ w_running
    /\ logcat_table # << >>
    /\ logcat_displayed_lines = Len(logcat_table)
    /\ procs[logcat_worker] = "alive"

\* C26: no UI operation writes a field of the worker that the worker itself
\* writes (the running flag, the process handle) while the worker is alive.
C26_SingleWriter ==
    [][(/\ wPc \notin {"none", "returned"}
        /\ lastOp' \in {"start", "start_noop", "stop", "stop_noop", "clear_view",
                        "apply_filter", "apply_filter_failed", "new_log"})
       => UNCHANGED << w_running, adb_process >>]_vars

\* C28: the buffer clear is issued before the producer is launched, and no
\* outcome of the clear prevents the launch: the worker reaches the launch
\* only from the clear, every outcome of the clear leads to the launch, and a
\* producer starts only in the launch step.
C28_ClearPrecedesLaunch ==
    [][/\ (wPc' = "launch" /\ wPc # "launch") => wPc = "clear"
       /\ lastOp' \in ClearOutcomes => (wPc = "clear" /\ wPc' = "launch")
       /\ (\E k \in Sessions : procs[k] = "none" /\ procs'[k] = "alive")
             => wPc = "launch"]_vars

\* The clear has timed out and the worker stands at the launch.
C28_Witness ==
    /\ lastOp = "clear_timeout"
    /\ wPc = "launch"
    /\ w_running
    /\ procs[logcat_worker] = "none"

\* C27: at the moment a start is accepted the live view is empty, both line
\* counters are 0 and the archive part index is 0.
C27_StartFromCleanState ==
    [][/\ (lastOp' = "start" /\ sessionNo' # sessionNo)
          => (/\ logcat_table' = << >>
              /\ logcat_total_lines' = 0
              /\ logcat_displayed_lines' = 0)
       /\ (recLastOp' = "start" /\ recSessionNo' # recSessionNo)
          => rotation_index' = 0]_vars

\* A second start has just been accepted while records of the first session
\* are still queued for the view.
C27_Witness ==
    /\ lastOp = "start"
    /\ sessionNo = 2
    /\ eventQueue # << >>
    /\ logcat_table = << >>
    /\ logcat_total_lines = 0

C30_UnknownLevelStillParses ==
    \A i \in DOMAIN pResults :
        (/\ pLine.wellFormed
         /\ TagMessageMatch(pLine.rest).matches
         /\ ~DatetimeRaises(pNows[i].year, pLine.month, pLine.day))
        => /\ pResults[i] # << >>
           /\ pResults[i][1].level =
                 IF pLine.level \in {"F", "E", "W", "I", "D", "V"}
                 THEN pLine.level ELSE "U"

\* C31: on every line whose columns are well-formed, whose level is a capital
\* letter, whose date exists and whose text after the level holds a colon,
\* the parser returns a record whose tag is the trimmed text before the first
\* colon and whose message is the trimmed text after it, with or without a
\* blank behind that colon and with or without further colons.
C31_TagAndMessageSplitAtFirstColon ==
    \A i \in DOMAIN pResults :
        (/\ pLine.wellFormed
         /\ pLine.level \in UpperCaseLetters
         /\ FirstColon(pLine.rest) > 0
         /\ ~DatetimeRaises(pNows[i].year, pLine.month, pLine.day))
        => /\ pResults[i] # << >>
           /\ pResults[i][1].tag =
                 Strip(SubSeq(pLine.rest, 1, FirstColon(pLine.rest) - 1))
           /\ pResults[i][1].message =
                 Strip(SubSeq(pLine.rest, FirstColon(pLine.rest) + 1,
                              Len(pLine.rest)))

\* C32: at every moment at most one recorder worker is alive and at most one
\* producer process is alive, also after a stop whose join timed out and a
\* start that followed it.
C32_OneWorkerAndOneProducer ==
    /\ Cardinality({k \in Sessions : rPc[k] \notin {"none", "done"}}) <= 1
    /\ Cardinality({k \in Sessions : rProc[k] = "alive"}) <= 1

\* C33: when a stop has found the running flag set and no producer handle yet
\* (it arrived during the start-up of the worker) and the worker has ended
\* because of it, the stop completes with the producer of that worker not
\* alive: never launched, or terminated.
C33_EarlyStopLeavesNoProducer ==
    [][(/\ uiPc = "join"
        /\ lastOp' = "stopped"
        /\ wExit \in {"stopped", "launch_failed"}
        /\ \A i \in DOMAIN statusLog : statusLog[i] # "stopping_process")
       => procs'[logcat_worker] # "alive"]_vars

\* C34: in every state the displayed counter is at most the received counter,
\* and the view holds as many rows as the smaller of the displayed counter
\* and MAX_LIVE_LOG_ROWS.
C34_CountersAndViewAgree ==
    /\ logcat_displayed_lines <= logcat_total_lines
    /\ Len(logcat_table) =
          IF logcat_displayed_lines <= MAX_LIVE_LOG_ROWS
          THEN logcat_displayed_lines ELSE MAX_LIVE_LOG_ROWS

\* A record has been rejected and the view is full.
C34_Witness ==
    /\ logcat_displayed_lines < logcat_total_lines
    /\ logcat_displayed_lines >= MAX_LIVE_LOG_ROWS
    /\ Len(logcat_table) = MAX_LIVE_LOG_ROWS

\* C35: under the criteria of __init__ (min_level VERBOSE, no tag pattern, no
\* message pattern, no PID/TID list) the filter accepts every record, whatever
\* its level.
C35_InitialCriteriaAcceptAll ==
    (fChecked /\ fCriteria = InitialCriteria) => fAccepts

C37_AllSegmentsClosedAtExit ==
    \A k \in Sessions : rPc[k] = "done" => rOpen[k] = {}

\* C38: a clear of the view, in whatever state of the session, sets both
\* counters to 0 and empties the view, and leaves the criteria in force, the
\* state of the session, the thread, the worker and the producer processes as
\* they are.
C38_ClearViewResetsCountersOnly ==
    [][lastOp' = "clear_view"
       => /\ logcat_table' = << >>
          /\ logcat_total_lines' = 0
          /\ logcat_displayed_lines' = 0
          /\ SessionState' = SessionState
          /\ UNCHANGED << logcat_filter_criteria, logcat_thread, logcat_worker,
                          workerVars, procVars >>]_vars

\* The view was cleared in the first session, with criteria other than those
\* of __init__ in force, the producer alive, every line the producer has
\* written read, and the records of these lines processed.
C38_Witness ==
    /\ lastOp = "clear_view"
    /\ sessionNo = 1
    /\ logcat_filter_criteria # InitialCriteria
    /\ SessionState = "RUNNING"
    /\ procs[logcat_worker] = "alive"
    /\ Len(wRead) = emitted
    /\ emitted >= 2
    /\ eventQueue = << >>
    /\ logcat_total_lines = 0
    /\ datetime_name = "class"

====
